---------------------------- MODULE Spec2Model ----------------------------
(***************************************************************************)
(* A model of srtm_reader: Coord (src/src/coords.rs), Resolution           *)
(* (src/src/resolutions.rs) and Tile (src/src/tiles.rs).                   *)
(*                                                                         *)
(* Numbers.  A latitude or longitude (an f64 in the code) is an integer    *)
(* count of 1/Den degrees.  For Den a power of two every such value and    *)
(* every intermediate result of get_offset is exactly representable in an  *)
(* f64, so the exact arithmetic below is the arithmetic the code performs. *)
(*                                                                         *)
(* Text.  A string is a sequence of characters; a character is a           *)
(* one-character TLA+ string, except MultiByte, which stands for a         *)
(* character whose UTF-8 encoding takes two bytes.                         *)
(***************************************************************************)
EXTENDS Integers, Sequences, FiniteSets, TLC

VARIABLES
    call,       \* the Coord constructor last called: its name, arguments and outcome
    coord,      \* the Coord value held by the caller, or NoCoord
    fname,      \* the result of Coord::get_filename, or NoName
    parsed,     \* the result of Tile::get_lat_lon, or Idle
    flen,       \* the byte length handed to Resolution::try_from
    resol,      \* the result of Resolution::try_from, or Idle
    file,       \* the file system's entry for the path given to Tile::from_file
    pc,         \* the position of Tile::from_file
    load,       \* the locals and the result of Tile::from_file
    tile,       \* the Tile held by the caller, or NoTile
    arg,        \* the coordinate given to Tile::get
    out,        \* the outcome of Tile::get, or Idle
    reader,     \* the byte source handed to Tile::parse_hgt, or NoReader
    vec,        \* the result of Tile::parse_hgt or the data of a Tile, or Idle
    heights     \* the results of Tile::max_height and Tile::min_height, or Idle

vars == <<call, coord, fname, parsed, flen, resol, file, pc, load, tile, arg, out,
          reader, vec, heights>>

-----------------------------------------------------------------------------
(* Bounds of the model.                                                    *)

\* a degree is Den units
Den == 4
\* Coord constructors are tried up to this many degrees outside the valid range
Margin == 2
\* Tile::get is exercised on the cells within this many degrees of (0, 0)
MaxCell == 1
\* Resolution::try_from is tried this far around each length of interest
MaxDelta == 6
\* Tile::parse_hgt is run with total_len up to this many samples: the decoding
\* of one sample does not depend on how many there are
MaxTotal == 2
\* max_height and min_height are run on data of up to this many samples
MaxData == 3

-----------------------------------------------------------------------------
(* Integer types.                                                          *)

I8Min == -128
I8Max == 127
I16Min == -32768
I16Max == 32767

Idle == [kind |-> "idle"]
Panic(why) == [kind |-> "panic", why |-> why]

\* f64::trunc and the float-to-int casts round toward zero
TruncDiv(a, b) == IF a >= 0 THEN a \div b ELSE -((-a) \div b)

Abs(n) == IF n < 0 THEN -n ELSE n

\* two's-complement wrap of n into [lo, hi]
WrapInto(n, lo, hi) == lo + ((n - lo) % (hi - lo + 1))

\* saturation of n into [lo, hi]
SatInto(n, lo, hi) == IF n < lo THEN lo ELSE IF n > hi THEN hi ELSE n

\* f64::to_int_unchecked::<T>() of q/Den, T = [lo, hi].  The call is undefined
\* behaviour unless the truncated value fits T; the builds then produce the
\* wrapped low bits of a wider conversion, its saturation, or its zero.
ToIntUnchecked(q, lo, hi) ==
    LET t == TruncDiv(q, Den) IN
    IF lo <= t /\ t <= hi THEN {t}
    ELSE {WrapInto(t, lo, hi), SatInto(t, lo, hi), 0}

-----------------------------------------------------------------------------
(* Text.                                                                   *)

MultiByte == "U+00E9"
DigitChars == <<"0", "1", "2", "3", "4", "5", "6", "7", "8", "9">>
IsDigit(ch) == \E i \in 1..10 : DigitChars[i] = ch
DigitVal(ch) == (CHOOSE i \in 1..10 : DigitChars[i] = ch) - 1

\* Display of a non-negative integer: its decimal digits, no padding
RECURSIVE ToDecimal(_)
ToDecimal(n) ==
    IF n < 10 THEN <<DigitChars[n + 1]>>
    ELSE Append(ToDecimal(n \div 10), DigitChars[(n % 10) + 1])

\* Display of a signed integer
Display(n) == IF n < 0 THEN <<"-">> \o ToDecimal(-n) ELSE ToDecimal(n)

\* the value of a non-empty sequence of digits
RECURSIVE DigitsVal(_)
DigitsVal(s) ==
    IF Len(s) = 0 THEN 0
    ELSE 10 * DigitsVal(SubSeq(s, 1, Len(s) - 1)) + DigitVal(s[Len(s)])

AllDigits(s) == \A i \in 1..Len(s) : IsDigit(s[i])

\* str::parse::<iN>() for a type [lo, hi]: an optional sign, then digits only,
\* at least one, and a value that fits
ParseInt(s, lo, hi) ==
    LET signed == Len(s) > 0 /\ s[1] \in {"+", "-"}
        digits == IF signed THEN SubSeq(s, 2, Len(s)) ELSE s
        v      == IF signed /\ s[1] = "-" THEN -DigitsVal(digits) ELSE DigitsVal(digits)
    IN  IF Len(digits) = 0 \/ ~AllDigits(digits) THEN [ok |-> FALSE]
        ELSE IF v < lo \/ v > hi THEN [ok |-> FALSE]
        ELSE [ok |-> TRUE, val |-> v]

\* str::len(): the length in bytes
ByteWidth(ch) == IF ch = MultiByte THEN 2 ELSE 1

RECURSIVE ByteLen(_)
ByteLen(s) == IF Len(s) = 0 THEN 0 ELSE ByteWidth(s[1]) + ByteLen(Tail(s))

\* the byte offset at which character i of s starts (Len(s) + 1: the end)
ByteStart(s, i) == ByteLen(SubSeq(s, 1, i - 1))

\* str::is_char_boundary(b)
IsCharBoundary(s, b) == \E i \in 1..(Len(s) + 1) : ByteStart(s, i) = b

\* the characters of &s[a..b], for char boundaries a <= b
ByteSlice(s, a, b) ==
    LET first == CHOOSE i \in 1..(Len(s) + 1) : ByteStart(s, i) = a
        last  == CHOOSE i \in 1..(Len(s) + 1) : ByteStart(s, i) = b
    IN  SubSeq(s, first, last - 1)

-----------------------------------------------------------------------------
(* Coord: src/src/coords.rs.                                               *)

NoCoord == [kind |-> "none"]
NoName == [kind |-> "none"]

Coord(lat, lon) == [lat |-> lat, lon |-> lon]

\* a range check that leaves out the upper ends
InRangeExclusive(lat, lon) ==
    /\ -90 * Den <= lat /\ lat < 90 * Den
    /\ -180 * Den <= lon /\ lon < 180 * Den

\* (-90. ..=90.).contains(&lat) && (-180. ..=180.).contains(&lon)
InRange(lat, lon) ==
    /\ -90 * Den <= lat /\ lat <= 90 * Den
    /\ -180 * Den <= lon /\ lon <= 180 * Den

\* Coord::opt_new
OptNewResult(lat, lon) ==
    IF InRange(lat, lon) THEN [kind |-> "Some", val |-> Coord(lat, lon)]
    ELSE [kind |-> "None"]

\* Coord::new: opt_new(..).expect(..)
NewResult(lat, lon) ==
    LET o == OptNewResult(lat, lon) IN
    IF o.kind = "Some" THEN [kind |-> "Ok", val |-> o.val]
    ELSE Panic("expect")

\* impl From<(F1, F2)> for Coord: no validation
FromTuple(lat, lon) == Coord(lat, lon)

\* Coord::with_lat: Self::new(lat, self.lon)
WithLatResult(c, lat) == NewResult(lat, c.lon)

\* Coord::with_lon: Self::new(self.lat, lon)
WithLonResult(c, lon) == NewResult(c.lat, lon)

\* an add_to_lat that sets the latitude to its argument
AddToLatReplaces(c, d) == WithLatResult(c, d)

\* Coord::add_to_lat: self.with_lat(self.lat + lat.into())
AddToLatResult(c, d) == WithLatResult(c, c.lat + d)

\* Coord::add_to_lon: self.with_lon(self.lon + lon.into())
AddToLonResult(c, d) == WithLonResult(c, c.lon + d)

\* Coord::trunc: the pairs (i8, i16) the call can return
TruncOutcomes(c) ==
    { <<la, lo>> : la \in ToIntUnchecked(c.lat, I8Min, I8Max),
                   lo \in ToIntUnchecked(c.lon, I16Min, I16Max) }

\* Coord::trunc of a coordinate whose truncated parts fit i8 and i16
Trunc(c) == <<TruncDiv(c.lat, Den), TruncDiv(c.lon, Den)>>

\* iN::abs: the minimum of the type overflows, which panics in a build with
\* overflow checks and wraps to itself in one without
AbsOutcomes(n, lo) ==
    IF n = lo THEN {[ok |-> FALSE], [ok |-> TRUE, val |-> n]}
    ELSE {[ok |-> TRUE, val |-> Abs(n)]}

\* a format! that pads the longitude to two digits only
FormatNameShortPad(lat_ch, lat, lon_ch, lon) ==
    <<lat_ch>> \o (IF lat < 10 THEN <<"0">> ELSE <<>>) \o Display(lat)
    \o <<lon_ch>> \o (IF lon < 10 THEN <<"0">> ELSE <<>>)
    \o Display(lon) \o <<".", "h", "g", "t">>

\* the format! of get_filename, from the sign letters and the absolute values
FormatName(lat_ch, lat, lon_ch, lon) ==
    <<lat_ch>> \o (IF lat < 10 THEN <<"0">> ELSE <<>>) \o Display(lat)
    \o <<lon_ch>>
    \o (IF lon < 10 THEN <<"0", "0">> ELSE IF lon < 100 THEN <<"0">> ELSE <<>>)
    \o Display(lon) \o <<".", "h", "g", "t">>

\* Coord::get_filename: the outcomes of the call
GetFilenameOutcomes(c) ==
    LET lat_ch == IF c.lat >= 0 THEN "N" ELSE "S"
        lon_ch == IF c.lon >= 0 THEN "E" ELSE "W"
    IN  UNION { UNION { { IF ~a.ok \/ ~b.ok THEN Panic("abs overflow")
                          ELSE [kind |-> "Ok",
                                name |-> FormatName(lat_ch, a.val, lon_ch, b.val)]
                          : a \in AbsOutcomes(t[1], I8Min) }
                        : b \in AbsOutcomes(t[2], I16Min) }
                : t \in TruncOutcomes(c) }

\* Coord::get_filename of a coordinate whose truncated parts fit i8 and i16
GetFilename(c) ==
    FormatName(IF c.lat >= 0 THEN "N" ELSE "S", Abs(Trunc(c)[1]),
               IF c.lon >= 0 THEN "E" ELSE "W", Abs(Trunc(c)[2]))

-----------------------------------------------------------------------------
(* Tile::get_lat_lon: src/src/tiles.rs.                                    *)

HasDot(s) == \E i \in 2..Len(s) : s[i] = "."
LastDot(s) == CHOOSE i \in 2..Len(s) : s[i] = "." /\ \A j \in (i + 1)..Len(s) : s[j] # "."

\* Path::file_stem of a path that is a bare file name: the name up to its
\* last dot, the whole name when it has no dot after its first character,
\* and nothing for the empty path
FileStem(path) ==
    IF Len(path) = 0 THEN [some |-> FALSE]
    ELSE IF HasDot(path) THEN [some |-> TRUE, val |-> SubSeq(path, 1, LastDot(path) - 1)]
    ELSE [some |-> TRUE, val |-> path]

ParseLatLong == [kind |-> "Err", err |-> "ParseLatLong"]

\* a sign that is always positive
SignOfAlwaysPlus(ch, plus) == 1

\* if get_char(n)? == 'N' { 1 } else { -1 }, and the same for 'E'
SignOf(ch, plus) == IF ch = plus THEN 1 ELSE -1

\* the body of get_lat_lon from desc on
LatLonOfStem(desc) ==
    IF ByteLen(desc) # 7 THEN ParseLatLong
    ELSE
    LET lat_sign == SignOf(desc[1], "N") IN
    IF ~IsCharBoundary(desc, 1) \/ ~IsCharBoundary(desc, 3) THEN Panic("str slice")
    ELSE
    LET lat == ParseInt(ByteSlice(desc, 1, 3), I8Min, I8Max) IN
    IF ~lat.ok THEN ParseLatLong
    ELSE IF Len(desc) < 4 THEN ParseLatLong
    ELSE
    LET lon_sign == SignOf(desc[4], "E") IN
    IF ~IsCharBoundary(desc, 4) \/ ~IsCharBoundary(desc, 7) THEN Panic("str slice")
    ELSE
    LET lon == ParseInt(ByteSlice(desc, 4, 7), I16Min, I16Max) IN
    IF ~lon.ok THEN ParseLatLong
    ELSE [kind |-> "Ok", lat |-> lat_sign * lat.val, lon |-> lon_sign * lon.val]

\* Tile::get_lat_lon
GetLatLon(path) ==
    LET stem == FileStem(path) IN
    IF ~stem.some THEN ParseLatLong ELSE LatLonOfStem(stem.val)

-----------------------------------------------------------------------------
(* Inputs of the Coord operations.                                         *)

\* every latitude and longitude of the valid range, and Margin degrees beyond
AllLats == (-(90 + Margin) * Den)..((90 + Margin) * Den)
AllLons == (-(180 + Margin) * Den)..((180 + Margin) * Den)

\* the values each one is paired with: the range's ends, both signs next to
\* zero, one, two and three digit degrees, and values that fit no i8 or i16
SampleLats == {-90 * Den, -7 * Den - 1, -1, 0, 1, 45 * Den, 90 * Den, 200 * Den}
SampleLons == {-180 * Den, -7 * Den, -1, 0, 15 * Den + 1, 180 * Den, 40000 * Den}

CoordInputs == (AllLats \X SampleLons) \cup (SampleLats \X AllLons)

-----------------------------------------------------------------------------
(* The state before any call.                                              *)

NoFile == [kind |-> "none"]
NoReader == [kind |-> "none"]
NoTile == [kind |-> "none"]

Init ==
    /\ call = Idle
    /\ coord = NoCoord
    /\ fname = NoName
    /\ parsed = Idle
    /\ flen = 0
    /\ resol = Idle
    /\ file = NoFile
    /\ pc = "idle"
    /\ load = Idle
    /\ tile = NoTile
    /\ arg = NoCoord
    /\ out = Idle
    /\ reader = NoReader
    /\ vec = Idle
    /\ heights = Idle

-----------------------------------------------------------------------------
(* The Coord operations as steps of a caller.                              *)

\* let r = Coord::opt_new(lat, lon)
OptNew(lat, lon) ==
    /\ call = Idle
    /\ LET r == OptNewResult(lat, lon) IN
        /\ call' = [kind |-> "opt_new", lat |-> lat, lon |-> lon, ret |-> r.kind]
        /\ coord' = IF r.kind = "Some" THEN r.val ELSE NoCoord
    /\ UNCHANGED <<fname, parsed, flen, resol, file, pc, load, tile, arg, out, reader, vec, heights>>

\* let c = Coord::new(lat, lon)
New(lat, lon) ==
    /\ call = Idle
    /\ LET r == NewResult(lat, lon) IN
        /\ call' = [kind |-> "new", lat |-> lat, lon |-> lon, ret |-> r.kind]
        /\ coord' = IF r.kind = "Ok" THEN r.val ELSE NoCoord
    /\ UNCHANGED <<fname, parsed, flen, resol, file, pc, load, tile, arg, out, reader, vec, heights>>

\* let c: Coord = (lat, lon).into()
Into(lat, lon) ==
    /\ call = Idle
    /\ call' = [kind |-> "from", lat |-> lat, lon |-> lon, ret |-> "Ok"]
    /\ coord' = FromTuple(lat, lon)
    /\ UNCHANGED <<fname, parsed, flen, resol, file, pc, load, tile, arg, out, reader, vec, heights>>

\* let name = c.get_filename()
CallGetFilename ==
    /\ coord # NoCoord
    /\ fname = NoName
    /\ \E o \in GetFilenameOutcomes(coord) : fname' = o
    /\ UNCHANGED <<call, coord, parsed, flen, resol, file, pc, load, tile, arg, out, reader, vec, heights>>

\* let r = Tile::get_lat_lon(name)
CallGetLatLon ==
    /\ fname # NoName
    /\ fname.kind = "Ok"
    /\ parsed = Idle
    /\ parsed' = GetLatLon(fname.name)
    /\ UNCHANGED <<call, coord, fname, flen, resol, file, pc, load, tile, arg, out, reader, vec, heights>>

\* a caller that constructs one coordinate, names its file and parses the name
NextCoord ==
    \/ call = Idle /\ \E in \in CoordInputs : OptNew(in[1], in[2])
    \/ call = Idle /\ \E in \in CoordInputs : New(in[1], in[2])
    \/ call = Idle /\ \E in \in CoordInputs : Into(in[1], in[2])
    \/ CallGetFilename
    \/ CallGetLatLon

SpecCoord == Init /\ [][NextCoord]_vars

-----------------------------------------------------------------------------
(* The methods that derive a coordinate from one the caller holds.         *)

\* the coordinates the methods are called on
BaseInputs == SampleLats \X SampleLons

CtorKinds == {"opt_new", "new", "from"}
DerivedKinds == {"with_lat", "with_lon", "add_to_lat", "add_to_lon"}

\* the caller holds a coordinate fresh from a constructor
HoldsFresh == call.kind \in CtorKinds /\ coord # NoCoord

\* the step of a method on the held coordinate: the call and what it returned
Derive(kind, x, r) ==
    /\ call' = [kind |-> kind, self |-> coord, x |-> x, ret |-> r.kind]
    /\ coord' = IF r.kind = "Ok" THEN r.val ELSE NoCoord
    /\ UNCHANGED <<fname, parsed, flen, resol, file, pc, load, tile, arg, out, reader, vec, heights>>

\* let c = c.with_lat(lat)
WithLat(lat) == HoldsFresh /\ Derive("with_lat", lat, WithLatResult(coord, lat))

\* let c = c.with_lon(lon)
WithLon(lon) == HoldsFresh /\ Derive("with_lon", lon, WithLonResult(coord, lon))

\* let c = c.add_to_lat(d)
AddToLat(d) == HoldsFresh /\ Derive("add_to_lat", d, AddToLatResult(coord, d))

\* let c = c.add_to_lon(d)
AddToLon(d) == HoldsFresh /\ Derive("add_to_lon", d, AddToLonResult(coord, d))

\* a caller that constructs one coordinate and derives another from it
NextWith ==
    \/ call = Idle /\ \E in \in BaseInputs : OptNew(in[1], in[2])
    \/ call = Idle /\ \E in \in BaseInputs : New(in[1], in[2])
    \/ call = Idle /\ \E in \in BaseInputs : Into(in[1], in[2])
    \/ HoldsFresh /\ \E lat \in AllLats : WithLat(lat)
    \/ HoldsFresh /\ \E lon \in AllLons : WithLon(lon)
    \/ HoldsFresh /\ \E d \in AllLats : AddToLat(d)
    \/ HoldsFresh /\ \E d \in AllLons : AddToLon(d)

SpecWith == Init /\ [][NextWith]_vars

\* C11: with_lat(v), with_lon(v), add_to_lat(d) and add_to_lon(d) on c return
\* the coordinate with that one component set to v, or raised by d, and the
\* other unchanged when it is in range, and panic as new does when it is not,
\* whichever way c was made
C11_DerivedAsNew ==
    (call.kind \in DerivedKinds) =>
        LET c == call.self
            lat2 == IF call.kind = "with_lat" THEN call.x
                    ELSE IF call.kind = "add_to_lat" THEN c.lat + call.x ELSE c.lat
            lon2 == IF call.kind = "with_lon" THEN call.x
                    ELSE IF call.kind = "add_to_lon" THEN c.lon + call.x ELSE c.lon
            valid == /\ -90 * Den <= lat2 /\ lat2 <= 90 * Den
                     /\ -180 * Den <= lon2 /\ lon2 <= 180 * Den
        IN  /\ valid => (call.ret = "Ok" /\ coord = [lat |-> lat2, lon |-> lon2])
            /\ ~valid => (call.ret = "panic" /\ coord = NoCoord)

\* add_to_lat(0.25) on (-90, 180) has returned (-89.75, 180)
C11_Witness ==
    /\ call = [kind |-> "add_to_lat", self |-> Coord(-90 * Den, 180 * Den),
               x |-> 1, ret |-> "Ok"]
    /\ coord = Coord(-90 * Den + 1, 180 * Den)

\* C14: every Coord a caller obtains from opt_new, new, with_lat, with_lon,
\* add_to_lat, add_to_lon or the tuple conversion has lat in [-90, 90] and
\* lon in [-180, 180]
C14_CoordInRange ==
    coord # NoCoord =>
        /\ -90 * Den <= coord.lat /\ coord.lat <= 90 * Den
        /\ -180 * Den <= coord.lon /\ coord.lon <= 180 * Den

-----------------------------------------------------------------------------
(* Tile::get_lat_lon on the paths a caller can hand it.                    *)

\* the characters tried in a stem: the four sign letters, other letters, the
\* signs str::parse accepts, digits, and a two-byte character
StemChars == {"N", "S", "E", "W", "X", "n", "e", "+", "-", "0", "5", "9", MultiByte}

\* the well-formed stems the others are derived from
BaseStems == { <<"N", "3", "5", "E", "1", "3", "8">>, <<"S", "0", "2", "W", "0", "0", "7">> }

RemoveAt(s, k) == SubSeq(s, 1, k - 1) \o SubSeq(s, k + 1, Len(s))

\* a base stem with any two positions overwritten
OverwrittenStems ==
    { [[b EXCEPT ![i] = x] EXCEPT ![j] = y] :
        b \in BaseStems, i \in 1..7, j \in 1..7, x \in StemChars, y \in StemChars }

\* an overwritten stem, one with a character removed, one with a character
\* appended, and every prefix of a base stem
Stems ==
    OverwrittenStems
    \cup { RemoveAt(s, k) : s \in OverwrittenStems, k \in 1..7 }
    \cup { Append([b EXCEPT ![i] = x], y) :
             b \in BaseStems, i \in 1..7, x \in StemChars, y \in StemChars }
    \cup { SubSeq(b, 1, n) : b \in BaseStems, n \in 0..6 }

\* a stem with the extension of an SRTM file, and the bare stem
PathsOf(stem) == { stem \o <<".", "h", "g", "t">>, stem }

\* the caller names a path of its own
SupplyPath(path) ==
    /\ fname = NoName
    /\ fname' = [kind |-> "Ok", name |-> path]
    /\ UNCHANGED <<call, coord, parsed, flen, resol, file, pc, load, tile, arg, out, reader, vec, heights>>

\* a caller that parses one path
NextParse ==
    \/ fname = NoName /\ \E stem \in Stems : \E path \in PathsOf(stem) : SupplyPath(path)
    \/ CallGetLatLon

SpecParse == Init /\ [][NextParse]_vars

\* [NS]\d{2}[EW]\d{3}
WellFormedStem(s) ==
    /\ Len(s) = 7
    /\ s[1] \in {"N", "S"}
    /\ s[4] \in {"E", "W"}
    /\ \A i \in {2, 3, 5, 6, 7} : s[i] \in {"0", "1", "2", "3", "4", "5", "6", "7", "8", "9"}

\* the stem of the path that was parsed
ParsedStem == FileStem(fname.name)

\* C5: get_lat_lon returns Err(ParseLatLong), neither Ok nor a panic, for
\* every stem that does not match [NS]\d{2}[EW]\d{3}
C5_MalformedStemIsError ==
    (parsed # Idle /\ (~ParsedStem.some \/ ~WellFormedStem(ParsedStem.val))) =>
        parsed = ParseLatLong

-----------------------------------------------------------------------------
(* Resolution: src/src/resolutions.rs.                                     *)

EXTENT == 3600

Resolutions == {"SRTM05", "SRTM1", "SRTM3"}

\* Resolution::extent
Extent(res) ==
    1 + (CASE res = "SRTM05" -> EXTENT * 2
           [] res = "SRTM1" -> EXTENT
           [] res = "SRTM3" -> EXTENT \div 3)

\* Resolution::total_len
TotalLen(res) == Extent(res) * Extent(res)

\* a match of the halved length against total_len
TryFromHalved(len) ==
    IF len \div 2 = TotalLen("SRTM05") THEN [kind |-> "Ok", val |-> "SRTM05"]
    ELSE IF len \div 2 = TotalLen("SRTM1") THEN [kind |-> "Ok", val |-> "SRTM1"]
    ELSE IF len \div 2 = TotalLen("SRTM3") THEN [kind |-> "Ok", val |-> "SRTM3"]
    ELSE [kind |-> "Err"]

\* impl TryFrom<u64> for Resolution.  usize::try_from(len) fails only for a
\* len above usize::MAX, which is above every length tried here
TryFrom(len) ==
    IF len = TotalLen("SRTM05") * 2 THEN [kind |-> "Ok", val |-> "SRTM05"]
    ELSE IF len = TotalLen("SRTM1") * 2 THEN [kind |-> "Ok", val |-> "SRTM1"]
    ELSE IF len = TotalLen("SRTM3") * 2 THEN [kind |-> "Ok", val |-> "SRTM3"]
    ELSE [kind |-> "Err"]

\* the lengths tried: around zero, each extent, each total_len and its double
KeyLens ==
    {0} \cup { Extent(r) : r \in Resolutions }
        \cup { TotalLen(r) : r \in Resolutions }
        \cup { 2 * TotalLen(r) : r \in Resolutions }

LenInputs == { k + d : k \in KeyLens, d \in (-MaxDelta)..MaxDelta } \cap Nat

\* let r = Resolution::try_from(n)
CallTryFrom(n) ==
    /\ resol = Idle
    /\ flen' = n
    /\ resol' = TryFrom(n)
    /\ UNCHANGED <<call, coord, fname, parsed, file, pc, load, tile, arg, out, reader, vec, heights>>

\* a caller that infers one resolution
NextRes == resol = Idle /\ \E n \in LenInputs : CallTryFrom(n)

SpecRes == Init /\ [][NextRes]_vars

\* C7: try_from(n) is SRTM3 exactly for n = 2_884_802, SRTM1 exactly for
\* n = 25_934_402, SRTM05 exactly for n = 103_708_802, each of them
\* 2 * extent()^2 = 2 * total_len() for the extents 1201, 3601 and 7201, and it
\* is an error for every other n
C7_ResolutionFromLength ==
    /\ Extent("SRTM3") = 1201 /\ Extent("SRTM1") = 3601 /\ Extent("SRTM05") = 7201
    /\ 2 * TotalLen("SRTM3") = 2884802 /\ 2 * 1201 * 1201 = 2884802
    /\ 2 * TotalLen("SRTM1") = 25934402 /\ 2 * 3601 * 3601 = 25934402
    /\ 2 * TotalLen("SRTM05") = 103708802 /\ 2 * 7201 * 7201 = 103708802
    /\ resol # Idle =>
        /\ resol = [kind |-> "Ok", val |-> "SRTM3"] <=> flen = 2884802
        /\ resol = [kind |-> "Ok", val |-> "SRTM1"] <=> flen = 25934402
        /\ resol = [kind |-> "Ok", val |-> "SRTM05"] <=> flen = 103708802
        /\ flen \notin {2884802, 25934402, 103708802} => resol = [kind |-> "Err"]

\* the odd length above SRTM3's has been refused
C7_Witness == flen = 2884803 /\ resol = [kind |-> "Err"]

-----------------------------------------------------------------------------
(* Tile: src/src/tiles.rs.                                                 *)
(*                                                                         *)
(* A grid of samples is kept as its length and the value of its samples:   *)
(* data = [len |-> n, fill |-> v] is the vector of n samples v.  Tile::get *)
(* reads one sample, at the index it computes, and `out` records both.     *)

NoData == -9999

\* Tile::new
TileNew(lat, lon, res, data) ==
    [kind |-> "tile", latitude |-> lat, longitude |-> lon, resolution |-> res, data |-> data]

\* Vec::get
DataGet(data, i) ==
    IF i < data.len THEN [some |-> TRUE, val |-> data.fill] ELSE [some |-> FALSE]

\* `x as usize` for the f64 x = num / den, den > 0: toward zero, saturating at 0
AsUsize(num, den) == IF num < 0 THEN 0 ELSE num \div den

\* Tile::get_origin, in whole degrees
GetOrigin(c) == [lat |-> TruncDiv(c.lat, Den) + 1, lon |-> TruncDiv(c.lon, Den)]

\* Tile::get_offset
GetOffset(t, c) ==
    LET origin == GetOrigin(c)
        extent == Extent(t.resolution)
    IN  [row |-> AsUsize((origin.lat * Den - c.lat) * extent, Den),
         col |-> AsUsize((c.lon - origin.lon * Den) * extent, Den)]

\* the assert! of Tile::idx
IdxInBounds(t, x, y) == x < Extent(t.resolution) /\ y < Extent(t.resolution)

\* Tile::idx, past its assert!
Idx(t, x, y) == y * Extent(t.resolution) + x

\* the sentinel test of Tile::get
IsSentinel(e) == e = NoData \/ e = I16Min

GetOut(kind, why, val, off, diag) ==
    [kind |-> kind, why |-> why, val |-> val, row |-> off.row, col |-> off.col, diag |-> diag]

\* Tile::get, from the truncated pair tr that coord.trunc() returned
GetWith(t, c, tr) ==
    LET offset == GetOffset(t, c) IN
    IF ~(t.latitude <= tr[1]) THEN GetOut("panic", "assert latitude", 0, offset, FALSE)
    ELSE IF ~(t.longitude <= tr[2]) THEN GetOut("panic", "assert longitude", 0, offset, FALSE)
    ELSE IF ~IdxInBounds(t, offset.col, offset.row)
         THEN GetOut("panic", "assert idx", 0, offset, FALSE)
    ELSE
    LET elev == DataGet(t.data, Idx(t, offset.col, offset.row)) IN
    IF elev.some /\ IsSentinel(elev.val)
    THEN IF NewResult(t.latitude * Den, t.longitude * Den).kind = "panic"
         THEN GetOut("panic", "expect", 0, offset, FALSE)
         ELSE GetOut("None", "", 0, offset, TRUE)
    ELSE IF elev.some THEN GetOut("Some", "", elev.val, offset, FALSE)
    ELSE GetOut("None", "", 0, offset, FALSE)

\* Tile::get: the outcomes of the call
GetOutcomes(t, c) == { GetWith(t, c, tr) : tr \in TruncOutcomes(c) }

-----------------------------------------------------------------------------
(* Tile::from_file, step by step.                                          *)

NoLoad == [f_len |-> 0, res |-> "none", latlon |-> Idle, read |-> 0, ret |-> Idle]

\* the file system's entry for a path: whether open succeeds, whether its
\* metadata can be read, its length, the bytes a read delivers before it
\* fails, and the value of its samples
FileEntry(path, exists, meta, len, avail, fill) ==
    [kind |-> "file", path |-> path, exists |-> exists, meta |-> meta,
     len |-> len, avail |-> avail, fill |-> fill]

Err(e) == [kind |-> "Err", err |-> e]

\* Tile::from_file(path) is entered
CallFromFile(f) ==
    /\ pc = "idle"
    /\ file' = f
    /\ load' = NoLoad
    /\ pc' = "open"
    /\ UNCHANGED <<call, coord, fname, parsed, flen, resol, tile, arg, out, reader, vec, heights>>

\* an open whose failure is reported as Error::Read
OpenAsReadError ==
    /\ pc = "open"
    /\ IF file.exists
       THEN pc' = "stat" /\ load' = load
       ELSE pc' = "done" /\ load' = [load EXCEPT !.ret = Err("Read")]
    /\ UNCHANGED <<call, coord, fname, parsed, flen, resol, file, tile, arg, out, reader, vec, heights>>

\* File::open(&path).map_err(|_| Error::NotFound)?
Open ==
    /\ pc = "open"
    /\ IF file.exists
       THEN pc' = "stat" /\ load' = load
       ELSE pc' = "done" /\ load' = [load EXCEPT !.ret = Err("NotFound")]
    /\ UNCHANGED <<call, coord, fname, parsed, flen, resol, file, tile, arg, out, reader, vec, heights>>

\* file.metadata().map_err(|_| Error::Filesize)?.len()
Stat ==
    /\ pc = "stat"
    /\ IF file.meta
       THEN pc' = "infer" /\ load' = [load EXCEPT !.f_len = file.len]
       ELSE pc' = "done" /\ load' = [load EXCEPT !.ret = Err("Filesize")]
    /\ UNCHANGED <<call, coord, fname, parsed, flen, resol, file, tile, arg, out, reader, vec, heights>>

\* Resolution::try_from(f_len).map_err(|_| Error::Filesize)?
Infer ==
    /\ pc = "infer"
    /\ LET r == TryFrom(load.f_len) IN
       IF r.kind = "Ok"
       THEN pc' = "name" /\ load' = [load EXCEPT !.res = r.val]
       ELSE pc' = "done" /\ load' = [load EXCEPT !.ret = Err("Filesize")]
    /\ UNCHANGED <<call, coord, fname, parsed, flen, resol, file, tile, arg, out, reader, vec, heights>>

\* Tile::get_lat_lon(&path)?
ParseName ==
    /\ pc = "name"
    /\ LET r == GetLatLon(file.path) IN
       IF r.kind = "Ok"
       THEN pc' = "read" /\ load' = [load EXCEPT !.latlon = r]
       ELSE pc' = "done" /\ load' = [load EXCEPT !.latlon = r, !.ret = r]
    /\ UNCHANGED <<call, coord, fname, parsed, flen, resol, file, tile, arg, out, reader, vec, heights>>

\* a read that returns the samples it got when the body ends early
ReadBodyPartial ==
    /\ pc = "read"
    /\ pc' = "done"
    /\ LET need == TotalLen(load.res) * 2
           got  == IF file.avail >= need THEN need ELSE file.avail
       IN  /\ load' = [load EXCEPT !.read = got, !.ret = [kind |-> "Ok"]]
           /\ tile' = TileNew(load.latlon.lat, load.latlon.lon, load.res,
                               [len |-> got \div 2, fill |-> file.fill])
    /\ UNCHANGED <<call, coord, fname, parsed, flen, resol, file, arg, out, reader, vec, heights>>

\* Self::parse_hgt(file, res).map_err(|_| Error::Read)? and Ok(Tile::new(..)):
\* read_exact fills a buffer of total_len * 2 bytes or fails
ReadBody ==
    /\ pc = "read"
    /\ pc' = "done"
    /\ LET need == TotalLen(load.res) * 2 IN
       IF file.avail >= need
       THEN /\ load' = [load EXCEPT !.read = need, !.ret = [kind |-> "Ok"]]
            /\ tile' = TileNew(load.latlon.lat, load.latlon.lon, load.res,
                                [len |-> TotalLen(load.res), fill |-> file.fill])
       ELSE /\ load' = [load EXCEPT !.read = file.avail, !.ret = Err("Read")]
            /\ tile' = tile
    /\ UNCHANGED <<call, coord, fname, parsed, flen, resol, file, arg, out, reader, vec, heights>>

\* the sample values tried: i16::MIN, the SRTM void value, and an elevation
Samples == {I16Min, NoData, 258}

HgtExt == <<".", "h", "g", "t">>

\* the paths loaded: two well-formed names, two whose degrees are outside the
\* valid range, a letter that is no sign letter, a signed number, a short
\* stem, a two-byte character, and no name at all
LoadPaths ==
    { <<"N", "3", "5", "E", "1", "3", "8">> \o HgtExt,
      <<"N", "9", "9", "E", "9", "9", "9">> \o HgtExt,
      <<"S", "9", "5", "W", "2", "0", "0">> \o HgtExt,
      <<"S", "0", "2", "W", "0", "0", "7">> \o HgtExt,
      <<"X", "3", "5", "E", "1", "3", "8">> \o HgtExt,
      <<"N", "+", "5", "E", "1", "3", "8">> \o HgtExt,
      <<"N", "3", "E", "1", "3", "8">> \o HgtExt,
      <<"N", "5", MultiByte, "E", "1", "3">> \o HgtExt,
      <<>> }

\* the lengths a loaded file has: the three of the format, none, one byte
\* more than SRTM3's, and SRTM3's total_len
LoadLens ==
    { 2 * TotalLen(r) : r \in Resolutions }
    \cup {0, 2 * TotalLen("SRTM3") + 1, TotalLen("SRTM3")}

\* every combination of a path, an open and a metadata outcome, a length, a
\* read that delivers all of it or half of it, and a sample value
LoadFiles ==
    { FileEntry(p, e, m, l, IF short THEN l \div 2 ELSE l, v) :
        p \in LoadPaths, e \in BOOLEAN, m \in BOOLEAN,
        l \in LoadLens, short \in BOOLEAN, v \in Samples }

\* a caller that loads one file
NextLoad ==
    \/ pc = "idle" /\ \E f \in LoadFiles : CallFromFile(f)
    \/ Open
    \/ Stat
    \/ Infer
    \/ ParseName
    \/ ReadBody

SpecLoad == Init /\ [][NextLoad]_vars

\* the byte lengths of the format
ValidLens == {2884802, 25934402, 103708802}

\* C6: from_file opens, stats, infers the resolution, parses the name and
\* reads the body in this order and returns the error of the first step that
\* fails (NotFound, Filesize, Filesize, ParseLatLong, Read); it reads no
\* byte of the body before the name has parsed
C6_FirstFailingStep ==
    /\ pc \in {"stat", "infer", "name", "read"} => file.exists
    /\ pc \in {"infer", "name", "read"} => file.meta
    /\ pc \in {"name", "read"} => file.len \in ValidLens
    /\ pc = "read" => GetLatLon(file.path).kind = "Ok"
    /\ pc # "idle" /\ load.read > 0 => load.latlon.kind = "Ok"
    /\ pc \in {"open", "stat", "infer", "name", "read"} => load.read = 0 /\ load.ret = Idle
    /\ pc = "done" =>
        IF ~file.exists THEN load.ret = Err("NotFound")
        ELSE IF ~file.meta \/ file.len \notin ValidLens THEN load.ret = Err("Filesize")
        ELSE IF GetLatLon(file.path).kind = "Err" THEN load.ret = Err("ParseLatLong")
        ELSE IF GetLatLon(file.path).kind = "panic" THEN load.ret.kind = "panic"
        ELSE IF file.avail < file.len THEN load.ret = Err("Read")
        ELSE load.ret = [kind |-> "Ok"]

\* a missing file with a malformed name and a length of no resolution has
\* been reported as NotFound
C6_Witness ==
    /\ pc = "done" /\ ~file.exists /\ file.len = 0
    /\ GetLatLon(file.path).kind = "Err"
    /\ load.ret = Err("NotFound")

\* C12: a successful from_file returns a Tile whose data holds total_len
\* samples of the resolution inferred from the file's byte length; a failed
\* one, a short read of the body included, returns an error and no Tile
C12_LoadedTileIsComplete ==
    /\ pc # "done" => tile = NoTile
    /\ pc = "done" =>
        IF load.ret = [kind |-> "Ok"]
        THEN /\ tile # NoTile
             /\ tile.resolution = (IF file.len = 2884802 THEN "SRTM3"
                                    ELSE IF file.len = 25934402 THEN "SRTM1"
                                    ELSE "SRTM05")
             /\ tile.data.len = (IF file.len = 2884802 THEN 1201 * 1201
                                  ELSE IF file.len = 25934402 THEN 3601 * 3601
                                  ELSE 7201 * 7201)
             /\ file.len \in ValidLens /\ file.avail >= file.len
        ELSE tile = NoTile

\* an SRTM3 file has been loaded in full
C12_Witness ==
    /\ pc = "done" /\ load.ret = [kind |-> "Ok"] /\ file.len = 2884802
    /\ tile # NoTile /\ tile.resolution = "SRTM3" /\ tile.data.len = 1442401

\* C18: a Tile that from_file returns has its latitude in [-90, 90] and its
\* longitude in [-180, 180]
C18_LoadedTileInRange ==
    (pc = "done" /\ tile # NoTile) =>
        /\ -90 <= tile.latitude /\ tile.latitude <= 90
        /\ -180 <= tile.longitude /\ tile.longitude <= 180

-----------------------------------------------------------------------------
(* Tile::get on the tiles a caller can hold.                               *)

\* the coordinates of the cells within MaxCell degrees of (0, 0)
CellCoords ==
    { Coord(la, lo) : la \in (-MaxCell * Den)..(MaxCell * Den),
                      lo \in (-MaxCell * Den)..(MaxCell * Den) }

\* coordinates only the tuple conversion gives: inside the cell of N99E999,
\* and a latitude that fits no i8
TupleOnlyCoords == { Coord(99 * Den + 2, 999 * Den + 2), Coord(200 * Den, 1) }

GetCoords == CellCoords \cup TupleOnlyCoords

\* the files of the cells, named by get_filename, and two files whose names
\* parse to degrees outside the valid range; each complete, at each resolution
GetPaths ==
    { GetFilename(c) : c \in CellCoords }
    \cup { <<"S", "9", "9", "W", "0", "0", "0">> \o HgtExt,
            <<"N", "9", "9", "E", "9", "9", "9">> \o HgtExt }

GetFiles ==
    { FileEntry(p, TRUE, TRUE, 2 * TotalLen(r), 2 * TotalLen(r), v) :
        p \in GetPaths, r \in Resolutions, v \in Samples }

\* the arguments of Tile::new: latitudes over i8, longitudes over i16, a full
\* or an empty grid
NewLats == {I8Min, -91, -90, 0, 90, 91, I8Max}
NewLons == {I16Min, -181, 0, 181, I16Max}

\* let t = Tile::new(lat, lon, res, data)
CallTileNew(lat, lon, res, data) ==
    /\ pc = "idle"
    /\ tile = NoTile
    /\ tile' = TileNew(lat, lon, res, data)
    /\ pc' = "done"
    /\ UNCHANGED <<call, coord, fname, parsed, flen, resol, file, load, arg, out, reader, vec, heights>>

\* let e = t.get(c)
CallGet(c) ==
    /\ tile # NoTile
    /\ out = Idle
    /\ arg' = c
    /\ \E o \in GetOutcomes(tile, c) : out' = o
    /\ UNCHANGED <<call, coord, fname, parsed, flen, resol, file, pc, load, tile, reader, vec, heights>>

\* a caller that loads or builds one tile and queries it once
NextGet ==
    \/ pc = "idle" /\ \E f \in GetFiles : CallFromFile(f)
    \/ Open
    \/ Stat
    \/ Infer
    \/ ParseName
    \/ ReadBody
    \/ pc = "idle" /\ \E la \in NewLats, lo \in NewLons, r \in Resolutions, v \in Samples :
           \E n \in {0, TotalLen(r)} : CallTileNew(la, lo, r, [len |-> n, fill |-> v])
    \/ tile # NoTile /\ out = Idle /\ \E c \in GetCoords : CallGet(c)

SpecGet == Init /\ [][NextGet]_vars

-----------------------------------------------------------------------------
(* Properties of Tile::get.                                                *)

\* the coordinate given to get is one of the valid range
ValidArg ==
    /\ arg # NoCoord
    /\ arg.lat >= -90 * Den /\ arg.lat <= 90 * Den
    /\ arg.lon >= -180 * Den /\ arg.lon <= 180 * Den

\* get failed one of its three assertions
AssertFailed ==
    out.kind = "panic" /\ out.why \in {"assert latitude", "assert longitude", "assert idx"}

\* the tile holds every sample of its resolution
FullyLoaded == tile # NoTile /\ tile.data.len = TotalLen(tile.resolution)

\* C1: get(c) fails none of its assertions for a valid coordinate c and the
\* fully loaded tile whose latitude and longitude get_lat_lon parses from
\* c.get_filename()
C1_GetOnOwnTileDoesNotPanic ==
    (out # Idle /\ ValidArg /\ FullyLoaded
     /\ GetLatLon(GetFilename(arg))
            = [kind |-> "Ok", lat |-> tile.latitude, lon |-> tile.longitude])
    => ~AssertFailed

\* C2: get(c) on a loaded tile panics whenever c.trunc() differs from the
\* tile's (latitude, longitude): it returns no sample for another cell
C2_GetPanicsOutsideCell ==
    (out # Idle /\ ValidArg /\ FullyLoaded
     /\ Trunc(arg) # <<tile.latitude, tile.longitude>>)
    => out.kind = "panic"

\* the sample at the index get computed is a sentinel
SentinelAtIndex ==
    /\ out.row * Extent(tile.resolution) + out.col < tile.data.len
    /\ tile.data.fill \in {-9999, -32768}

\* C3: when get's assertions pass and the sample at the computed index is -9999
\* or i16::MIN, get returns None after its diagnostic, without a panic; get
\* never returns Some(-9999) or Some(i16::MIN)
C3_SentinelIsNone ==
    out # Idle =>
        /\ out.kind = "Some" => out.val \notin {-9999, -32768}
        /\ (~AssertFailed /\ SentinelAtIndex) => (out.kind = "None" /\ out.diag)

\* C4: get_offset maps an integer latitude to row 0 and an integer longitude to
\* column 0
C4_EdgesMapToZero ==
    out # Idle =>
        /\ arg.lat % Den = 0 => out.row = 0
        /\ arg.lon % Den = 0 => out.col = 0

\* floor(q / Den), in whole degrees
FloorDeg(q) == q \div Den

\* C15: for a valid coordinate in the tile's cell, get computes
\* row = floor((floor(lat) + 1 - lat) * extent) and
\* col = floor((lon - floor(lon)) * extent), both below extent
C15_OffsetIsFloorBased ==
    (out # Idle /\ ValidArg /\ FullyLoaded
     /\ FloorDeg(arg.lat) = tile.latitude /\ FloorDeg(arg.lon) = tile.longitude)
    => LET extent == Extent(tile.resolution) IN
       /\ out.row = (((FloorDeg(arg.lat) + 1) * Den - arg.lat) * extent) \div Den
       /\ out.col = ((arg.lon - FloorDeg(arg.lon) * Den) * extent) \div Den
       /\ out.row < extent /\ out.col < extent

-----------------------------------------------------------------------------
(* Tile::parse_hgt, max_height and min_height on the samples themselves.   *)

\* i16::from_le_bytes([b0, b1])
FromLeBytes(b0, b1) == WrapInto(b0 + 256 * b1, I16Min, I16Max)

\* i16::from_be_bytes([b0, b1])
FromBeBytes(b0, b1) == WrapInto(256 * b0 + b1, I16Min, I16Max)

\* Tile::parse_hgt, for total == res.total_len(): read_exact into a buffer of
\* total * 2 bytes, then one i16 per chunk of two; left is what the reader
\* still holds
ParseHgt(left, total) ==
    IF Len(left) < total * 2 THEN [kind |-> "Err"]
    ELSE [kind |-> "Ok",
          data |-> [k \in 1..total |-> FromBeBytes(left[2 * k - 1], left[2 * k])]]

\* Iterator::max: reduce, keeping the later element unless the earlier is greater
RECURSIVE FoldMax(_, _)
FoldMax(acc, s) ==
    IF s = <<>> THEN acc
    ELSE FoldMax(IF acc > Head(s) THEN acc ELSE Head(s), Tail(s))

\* Iterator::min: reduce, keeping the earlier element unless it is greater
RECURSIVE FoldMin(_, _)
FoldMin(acc, s) ==
    IF s = <<>> THEN acc
    ELSE FoldMin(IF acc > Head(s) THEN Head(s) ELSE acc, Tail(s))

\* a max_height that returns the first sample
MaxHeightOfFirst(d) == IF d = <<>> THEN 0 ELSE Head(d)

\* Tile::max_height: *self.data.iter().max().unwrap_or(&0)
MaxHeight(d) == IF d = <<>> THEN 0 ELSE FoldMax(Head(d), Tail(d))

\* Tile::min_height: *self.data.iter().min().unwrap_or(&0)
MinHeight(d) == IF d = <<>> THEN 0 ELSE FoldMin(Head(d), Tail(d))

\* the bytes of a body: 0x00, 0x7F, 0x80, 0xD8 and 0xF1
HgtBytes == {0, 127, 128, 216, 241}

RECURSIVE SeqsUpTo(_, _)
SeqsUpTo(S, n) ==
    IF n = 0 THEN {<<>>}
    ELSE LET shorter == SeqsUpTo(S, n - 1)
         IN  shorter \cup { Append(q, x) : q \in { r \in shorter : Len(r) = n - 1 }, x \in S }

\* bodies of up to one byte more than MaxTotal samples take
Bodies == SeqsUpTo(HgtBytes, 2 * MaxTotal + 1) \ {<<>>}

\* the samples of a data vector: both sentinels, both signs next to zero, an
\* elevation and i16::MAX
HeightSamples == {I16Min, NoData, -1, 0, 258, I16Max}

DataVectors == SeqsUpTo(HeightSamples, MaxData)

\* a reader over the bytes b, at their start
SupplyReader(b) ==
    /\ reader = NoReader
    /\ vec = Idle
    /\ reader' = [kind |-> "reader", bytes |-> b, pos |-> 0]
    /\ UNCHANGED <<call, coord, fname, parsed, flen, resol, file, pc, load, tile, arg, out, vec, heights>>

\* let r = Tile::parse_hgt(reader, res), res.total_len() being total
CallParseHgt(total) ==
    /\ reader # NoReader
    /\ vec = Idle
    /\ LET left == SubSeq(reader.bytes, reader.pos + 1, Len(reader.bytes))
           r    == ParseHgt(left, total)
       IN  /\ vec' = [from |-> "parse_hgt", total |-> total, ret |-> r]
           /\ reader' = [reader EXCEPT !.pos = IF r.kind = "Ok" THEN @ + total * 2
                                                ELSE Len(reader.bytes)]
    /\ UNCHANGED <<call, coord, fname, parsed, flen, resol, file, pc, load, tile, arg, out, heights>>

\* Tile::new(lat, lon, res, d): the data of a tile built from a vector
CallTileNewData(d) ==
    /\ reader = NoReader
    /\ vec = Idle
    /\ vec' = [from |-> "new", total |-> Len(d), ret |-> [kind |-> "Ok", data |-> d]]
    /\ UNCHANGED <<call, coord, fname, parsed, flen, resol, file, pc, load, tile, arg, out, reader, heights>>

\* tile.max_height() and tile.min_height() on the tile holding the data
CallHeights ==
    /\ vec # Idle
    /\ vec.ret.kind = "Ok"
    /\ heights = Idle
    /\ heights' = [max |-> MaxHeight(vec.ret.data), min |-> MinHeight(vec.ret.data)]
    /\ UNCHANGED <<call, coord, fname, parsed, flen, resol, file, pc, load, tile, arg, out, reader, vec>>

NextData ==
    \/ reader = NoReader /\ vec = Idle /\ \E b \in Bodies : SupplyReader(b)
    \/ reader # NoReader /\ vec = Idle /\ \E n \in 1..MaxTotal : CallParseHgt(n)
    \/ reader = NoReader /\ vec = Idle /\ \E d \in DataVectors : CallTileNewData(d)
    \/ CallHeights

SpecData == Init /\ [][NextData]_vars

\* C13: max_height returns the greatest and min_height the least sample of
\* data, sentinels included; both return 0 on empty data; min <= max
C13_HeightsAreExtremes ==
    heights # Idle =>
        LET d == vec.ret.data IN
        /\ heights.min <= heights.max
        /\ IF Len(d) = 0 THEN heights.max = 0 /\ heights.min = 0
           ELSE /\ \E i \in 1..Len(d) : d[i] = heights.max
                /\ \E i \in 1..Len(d) : d[i] = heights.min
                /\ \A i \in 1..Len(d) : heights.min <= d[i] /\ d[i] <= heights.max

\* the heights of a vector that holds both sentinels after an elevation
C13_Witness ==
    /\ heights = [max |-> 258, min |-> -32768]
    /\ vec # Idle /\ vec.ret.data = <<258, -9999, -32768>>

\* C16: parse_hgt returns, for k in [0, total_len), the big-endian signed
\* 16-bit value of bytes 2k and 2k+1, u - 65536 for u >= 32768, and consumes
\* total_len * 2 bytes; with fewer bytes available it returns an error
C16_BigEndianDecode ==
    (vec # Idle /\ vec.from = "parse_hgt") =>
        IF Len(reader.bytes) >= 2 * vec.total
        THEN /\ vec.ret.kind = "Ok"
             /\ Len(vec.ret.data) = vec.total
             /\ \A k \in 0..(vec.total - 1) :
                    LET u == 256 * reader.bytes[2 * k + 1] + reader.bytes[2 * k + 2]
                    IN  vec.ret.data[k + 1] = (IF u >= 32768 THEN u - 65536 ELSE u)
             /\ reader.pos = 2 * vec.total
        ELSE vec.ret.kind = "Err"

\* D8 F1 80 00 has been decoded to -9999 and -32768, a fifth byte left unread
C16_Witness ==
    /\ reader # NoReader /\ reader.bytes = <<216, 241, 128, 0, 0>> /\ reader.pos = 4
    /\ vec # Idle /\ vec.from = "parse_hgt"
    /\ vec.ret = [kind |-> "Ok", data |-> <<-9999, -32768>>]

-----------------------------------------------------------------------------
(* Properties of Coord and of the file name convention.                    *)

\* the coordinate held by the caller is one of the valid range
ValidCoord ==
    /\ coord # NoCoord
    /\ coord.lat >= -90 * Den /\ coord.lat <= 90 * Den
    /\ coord.lon >= -180 * Den /\ coord.lon <= 180 * Den

\* the whole degrees of |q / Den|
WholeAbs(q) == (IF q < 0 THEN -q ELSE q) \div Den

\* C8: the name get_filename gives a valid coordinate parses, by get_lat_lon,
\* to exactly the coordinate's trunc()
C8_FilenameRoundTrip ==
    (ValidCoord /\ parsed # Idle) =>
        parsed = [kind |-> "Ok", lat |-> Trunc(coord)[1], lon |-> Trunc(coord)[2]]

\* a latitude in (-1, 0) with a negative longitude has gone the round trip
C8_Witness ==
    /\ ValidCoord /\ coord.lat = -1 /\ coord.lon = -7 * Den
    /\ parsed = [kind |-> "Ok", lat |-> 0, lon |-> -7]

\* C9: for a valid coordinate get_filename returns 11 characters: N or S (N iff
\* lat >= 0), |trunc(lat)| in two digits, E or W (E iff lon >= 0), |trunc(lon)|
\* in three digits, and ".hgt"
C9_FilenameFormat ==
    (ValidCoord /\ fname # NoName) =>
        /\ fname.kind = "Ok"
        /\ LET n == fname.name
               a == WholeAbs(coord.lat)
               b == WholeAbs(coord.lon)
           IN  /\ Len(n) = 11
               /\ n[1] = (IF coord.lat >= 0 THEN "N" ELSE "S")
               /\ n[2] = DigitChars[(a \div 10) + 1]
               /\ n[3] = DigitChars[(a % 10) + 1]
               /\ n[4] = (IF coord.lon >= 0 THEN "E" ELSE "W")
               /\ n[5] = DigitChars[(b \div 100) + 1]
               /\ n[6] = DigitChars[((b \div 10) % 10) + 1]
               /\ n[7] = DigitChars[(b % 10) + 1]
               /\ SubSeq(n, 8, 11) = <<".", "h", "g", "t">>

\* (45, 1.25) has been named N45E001.hgt
C9_Witness ==
    /\ ValidCoord /\ coord = Coord(45 * Den, Den + 1)
    /\ fname = [kind |-> "Ok",
                name |-> <<"N", "4", "5", "E", "0", "0", "1", ".", "h", "g", "t">>]

\* the valid coordinates whose trunc() is that of c
SameTrunc(c) ==
    { c2 \in { Coord(la, lo) : la \in (c.lat - Den + 1)..(c.lat + 2 * Den - 1),
                               lo \in (c.lon - Den + 1)..(c.lon + 2 * Den - 1) } :
        /\ InRange(c2.lat, c2.lon)
        /\ Trunc(c2) = Trunc(c) }

\* C17: get_filename depends on trunc() only: every valid coordinate with the
\* same trunc() as the one named has the same file name
C17_FilenameOfTruncOnly ==
    (ValidCoord /\ fname # NoName /\ fname.kind = "Ok") =>
        \A c2 \in SameTrunc(coord) : GetFilename(c2) = fname.name

\* C10: opt_new returns Some, and new returns, exactly when -90 <= lat <= 90
\* and -180 <= lon <= 180; otherwise opt_new returns None and new panics; the
\* coordinate returned carries the given lat and lon
C10_ConstructorRange ==
    (call.kind \in {"opt_new", "new"}) =>
        LET valid == /\ -90 * Den <= call.lat /\ call.lat <= 90 * Den
                     /\ -180 * Den <= call.lon /\ call.lon <= 180 * Den
        IN  /\ valid => call.ret = (IF call.kind = "new" THEN "Ok" ELSE "Some")
            /\ valid => coord = [lat |-> call.lat, lon |-> call.lon]
            /\ ~valid => call.ret = (IF call.kind = "new" THEN "panic" ELSE "None")
            /\ ~valid => coord = NoCoord

\* opt_new has accepted the corner (90, -180)
C10_Witness ==
    /\ call = [kind |-> "opt_new", lat |-> 90 * Den, lon |-> -180 * Den, ret |-> "Some"]
    /\ coord = Coord(90 * Den, -180 * Den)

=============================================================================
